---- MODULE Spec2Model ----
(***************************************************************************)
(* NaturewatchCameraServer: the capture pipeline.                          *)
(*   ChangeDetector   (change_detector.py)   session state machine, tick,  *)
(*                                            motion detection, fake time  *)
(*   CameraController (camera_controller.py) frame acquisition, buffer     *)
(*   api blueprint    (api.py)               the HTTP handlers that call   *)
(*                                            into the two threads         *)
(* Time is counted in whole seconds and an operation runs at one instant   *)
(* of the clock (its sleeps are steps of the clock).  A frame is           *)
(* abstracted to the grey level of its changing region and the contours    *)
(* OpenCV extracts from it.                                                *)
(***************************************************************************)
EXTENDS Integers, Sequences, FiniteSets, TLC

\* ------------------------------------------------------------------------
\* Bounds of the model
\* ------------------------------------------------------------------------
\* seconds the system clock may advance after construction
MaxElapsed == 1
\* the same, where only the clock and its readers run (SpecClock)
ClockHorizon == 3
\* cap on the number of start_video_stream / stop_video_stream calls counted
MaxCalls == 2
\* largest contour list handed to get_largest_contour
MaxContours == 2
\* the side of a bounding box that exceeds max_width / max_height
MaxSize == 4
\* largest contour area enumerated
MaxArea == 2
\* seconds the system clock may advance where a timelapse session runs alone
MaxTimelapseElapsed == 31

\* ------------------------------------------------------------------------
\* Program constants
\* ------------------------------------------------------------------------
\* Python's None, for the integer-valued attributes
None == -1
\* api.update_time: a client time is accepted only above this epoch
MinValidTime == 1580317004
\* weight of cv2.accumulateWeighted is 0.5: the model is halved
AccumulateDivisor == 2
\* timelapse_interval when config.json has no timelapse_interval_s entry
TimelapseIntervalDefault == 30
\* FileSaver.save_image / save_video refuse from this disk usage (percent) on
StorageLimit == 99

\* ------------------------------------------------------------------------
\* Configuration (config.json is read at start-up, the values are inputs)
\* ------------------------------------------------------------------------
\* (mutant) the preset "less" has the minimum of the preset "default"
ConfigSamePresets ==
  [ min_width |-> 2, max_width |-> 3, min_height |-> 2, max_height |-> 3,
    less_sensitivity |-> 2, more_sensitivity |-> 1,
    delta_threshold |-> 0, min_photo_interval_s |-> 1,
    timelapse_interval_s |-> 1 ]

Config ==
  [ min_width |-> 2, max_width |-> 3, min_height |-> 2, max_height |-> 3,
    less_sensitivity |-> 3, more_sensitivity |-> 1,
    delta_threshold |-> 0, min_photo_interval_s |-> 1,
    timelapse_interval_s |-> 1 ]

\* the system clock (time.time()) when the process is constructed
BootTime == MinValidTime + 10
\* the times a client may send to /api/time/<time_string>
ClientTimes == {MinValidTime, MinValidTime + 2, MinValidTime + 20}

Modes == {"inactive", "photo", "video", "timelapse"}
SessionKinds == {"photo", "video", "timelapse"}
\* arguments of start_session: strings (valid or not) and a non-string
SessionInputs ==
  [isStr : {TRUE}, val : SessionKinds \cup {"inactive"}]
    \cup [isStr : {FALSE}, val : {"42"}]
Presets == {"less", "default", "more", "other"}

\* ------------------------------------------------------------------------
\* Frames and contours
\* ------------------------------------------------------------------------
GreyLevels == {0, 2}
\* bounding boxes <<w, h>>: inside the default bounds, too narrow, too low,
\* too wide, too high
Boxes == { <<2, 2>>, <<1, 2>>, <<2, 1>>, <<MaxSize, 2>>, <<2, MaxSize>> }
Contours == { [area |-> a, w |-> b[1], h |-> b[2]] : a \in 1..MaxArea, b \in Boxes }
RECURSIVE ContourLists(_)
ContourLists(n) ==
  IF n = 0 THEN { <<>> }
  ELSE LET shorter == ContourLists(n - 1) IN
       shorter \cup { Append(l, c) : l \in { x \in shorter : Len(x) = n - 1 },
                                      c \in Contours }
\* the frames handed to detect_change_contours where it is checked alone
DetectFrames ==
  { [grey |-> g, shapes |-> l] : g \in GreyLevels, l \in ContourLists(MaxContours) }
NoImage == [grey |-> None, shapes |-> <<>>]
\* the frames the acquisition loop delivers in the full model
AcqFrames ==
  { [grey |-> 0, shapes |-> <<>>],
    [grey |-> 2, shapes |-> << [area |-> 3, w |-> 2, h |-> 2] >>] }

VARIABLES
  picamera2,            \* TRUE: the picamera2 module was imported
  camera,               \* CameraController.camera / .capture ("recording", "stopped", "open", "closed")
  stop_event,           \* CameraController._stop_event
  cancelled,            \* ChangeDetector.cancelled
  image,                \* CameraController.image
  now,                  \* time.time()
  mode,                 \* ChangeDetector.mode
  session_start_time,   \* ChangeDetector.session_start_time
  last_capture_time,    \* ChangeDetector.last_capture_time
  avg,                  \* ChangeDetector.avg (the background model)
  min_width, max_width, min_height, max_height,
  device_time,          \* ChangeDetector.device_time
  device_time_start,    \* ChangeDetector.device_time_start
  n_start_video,        \* calls of start_video_stream made so far (capped)
  n_stop_video,         \* calls of stop_video_stream made so far (capped)
  op,                   \* the operation that ran last, its argument and outcome
  calls,                \* collaborator calls made by the operation that ran last
  pc,                   \* position of each API request thread (SpecConc)
  acquired,             \* the acquisition loop has stored a frame at least once
  md_image,             \* what the last call of get_md_image returned to its caller
  disk_percent,         \* psutil.disk_usage("/").percent
  files,                \* the files of the photos and videos directories
  timelapse_active,     \* ChangeDetector.timelapse_active
  timelapse             \* ChangeDetector.timelapse (None: no such attribute)

sens == <<min_width, max_width, min_height, max_height>>
clock == <<device_time, device_time_start>>
session == <<mode, session_start_time>>
counters == <<n_start_video, n_stop_video>>
device == <<picamera2, camera, stop_event, image>>
saver == <<disk_percent, files>>
lapse == <<timelapse_active, timelapse>>
vars ==
  <<picamera2, camera, stop_event, cancelled, image, now, mode, session_start_time, last_capture_time,
    avg, min_width, max_width, min_height, max_height, device_time,
    device_time_start, n_start_video, n_stop_video, op, calls, pc,
    acquired, md_image, disk_percent, files, timelapse_active, timelapse>>

Threads == {1, 2}
Idle == [at |-> "idle", kind |-> "none"]

\* ChangeDetector.get_fake_time, as a function of the clock attributes
FakeTime(dt, dts, t) ==
  IF dt = None THEN t ELSE dt + (t - dts)

get_fake_time == FakeTime(device_time, device_time_start, now)

\* ChangeDetector.get_formatted_time: the fake time at one-second resolution
get_formatted_time == get_fake_time

\* a collaborator call made by an operation: the function, the timestamp it was
\* handed (None if it takes none) and the media kind (save_thumb only)
Call(fn, ts, kind) == [fn |-> fn, ts |-> ts, kind |-> kind]
Plain(fn) == Call(fn, None, "none")

\* what the operation that ran last was: its name, its argument, its outcome
\* and, for start_session and stop_session, the mode it was called in
OpFrom(name, arg, res, m0) ==
  [name |-> name, arg |-> arg, res |-> res, mode0 |-> m0]
Op(name, arg, res) == OpFrom(name, arg, res, "none")

\* The device after initialise_picamera2 (it ends in start_recording) or
\* initialise_webcam (a fresh VideoCapture).  "stopped" is a Picamera2 whose
\* recording was stopped, "closed" is camera = None / a released capture.
InitialisedCamera(pi) == IF pi THEN "recording" ELSE "open"

Init ==
  /\ picamera2 \in BOOLEAN
  /\ camera = InitialisedCamera(picamera2)
  /\ stop_event = FALSE
  /\ cancelled = FALSE
  /\ image = NoImage
  /\ now = BootTime
  /\ mode = "inactive"
  /\ session_start_time = None
  /\ avg = None
  /\ last_capture_time = BootTime
  /\ min_width = Config.min_width
  /\ max_width = Config.max_width
  /\ min_height = Config.min_height
  /\ max_height = Config.max_height
  /\ device_time = None
  /\ device_time_start = None
  /\ n_start_video = 0
  /\ n_stop_video = 0
  /\ op = Op("init", "none", "ok")
  /\ calls = <<>>
  /\ acquired = FALSE
  /\ md_image = NoImage
  /\ disk_percent = StorageLimit - 1
  /\ timelapse_active = FALSE
  /\ timelapse = None
  /\ files = {}
  /\ pc = [t \in Threads |-> Idle]

\* ------------------------------------------------------------------------
\* CameraController: the rolling video buffer
\* ------------------------------------------------------------------------
\* start_video_stream only logs (picamera2) or does nothing: it cannot fail
\* and leaves the device as it is.
StartVideoStreamCamera(cam) == cam

\* stop_video_stream: with picamera2, self.camera.stop_recording().  It
\* raises when camera is None (after stop()) or when the hardware reports a
\* fault; without picamera2 it does nothing.
StopVideoStreamRaises(pi, cam, fault) == pi /\ (cam = "closed" \/ fault)

StopVideoStreamCamera(pi, cam, fault) ==
  IF pi /\ cam # "closed" /\ ~fault THEN "stopped" ELSE cam

\* ------------------------------------------------------------------------
\* ChangeDetector: session state machine (whole calls)
\* ------------------------------------------------------------------------
\* (mutant) the membership check is missing
StartSessionErrorTypeOnly(inp) ==
  IF ~inp.isStr THEN "TypeError" ELSE "ok"

\* the two argument checks at the head of start_session
StartSessionError(inp) ==
  IF ~inp.isStr THEN "TypeError"
  ELSE IF inp.val \notin {"photo", "video", "timelapse"} THEN "ValueError"
  ELSE "ok"

\* (mutant) the video buffer is started for every kind of session
StartSessionCallsAlways(kind) == << Plain("start_video_stream") >>

\* (mutant) the video buffer is never started
StartSessionCallsNever(kind) == <<>>

\* the collaborator calls of start_session(kind)
StartSessionCalls(kind) ==
  IF kind = "video" THEN << Plain("start_video_stream") >> ELSE <<>>

\* (mutant) a successful start_session clears the background model
StartSessionClearsModel(inp) ==
  /\ LET err == StartSessionError(inp) IN
     IF err # "ok"
     THEN /\ op' = OpFrom("start_session", inp.val, err, mode)
          /\ calls' = <<>>
          /\ UNCHANGED <<session, camera, avg>>
     ELSE /\ mode' = inp.val
          /\ calls' = StartSessionCalls(inp.val)
          /\ camera' = IF inp.val = "video"
                       THEN StartVideoStreamCamera(camera) ELSE camera
          /\ session_start_time' = get_fake_time
          /\ avg' = None
          /\ op' = OpFrom("start_session", inp.val, "ok", mode)
  /\ UNCHANGED <<lapse, saver, md_image, acquired, picamera2, stop_event, cancelled, image, now,
                 last_capture_time, sens, clock, counters, pc>>

StartSession(inp) ==
  /\ LET err == StartSessionError(inp) IN
     IF err # "ok"
     THEN /\ op' = OpFrom("start_session", inp.val, err, mode)
          /\ calls' = <<>>
          /\ UNCHANGED <<session, camera>>
     ELSE /\ mode' = inp.val
          /\ calls' = StartSessionCalls(inp.val)
          /\ camera' = IF inp.val = "video"
                       THEN StartVideoStreamCamera(camera) ELSE camera
          /\ session_start_time' = get_fake_time
          /\ op' = OpFrom("start_session", inp.val, "ok", mode)
  /\ UNCHANGED <<lapse, saver, md_image, acquired, picamera2, stop_event, cancelled, image, now,
                 last_capture_time, avg, sens, clock, counters, pc>>

\* the collaborator calls of stop_session() called in mode m
StopSessionCalls(m) ==
  IF m = "video" THEN << Plain("stop_video_stream") >> ELSE <<>>

\* the argument recorded for stop_session: whether it is the very next
\* operation after a successful start_session('video') called when inactive
StopFollows ==
  IF /\ op.name = "start_session" /\ op.res = "ok"
     /\ op.arg = "video" /\ op.mode0 = "inactive"
  THEN "after_video_start" ELSE "none"

StopSession(fault) ==
  /\ calls' = StopSessionCalls(mode)
  /\ IF mode = "video"
     THEN /\ camera' = StopVideoStreamCamera(picamera2, camera, fault)
          /\ IF StopVideoStreamRaises(picamera2, camera, fault)
             THEN \* the exception leaves stop_session before line 178
                  /\ op' = OpFrom("stop_session", StopFollows, "error", mode)
                  /\ UNCHANGED mode
             ELSE /\ op' = OpFrom("stop_session", StopFollows, "ok", mode)
                  /\ mode' = "inactive"
     ELSE /\ fault = FALSE
          /\ op' = OpFrom("stop_session", StopFollows, "ok", mode)
          /\ mode' = "inactive"
          /\ UNCHANGED camera
  /\ UNCHANGED <<lapse, saver, md_image, acquired, picamera2, stop_event, cancelled, image, now,
                 session_start_time, last_capture_time, avg, sens, clock,
                 counters, pc>>

\* (mutant) only the width bounds are set
SetSensitivityWidthsOnly(lo, hi) ==
  /\ max_width' = hi
  /\ min_width' = lo
  /\ UNCHANGED <<min_height, max_height>>

\* (mutant) the height bounds are copied from the width bounds of before
SetSensitivityStaleHeights(lo, hi) ==
  /\ max_height' = max_width
  /\ min_height' = min_width
  /\ max_width' = hi
  /\ min_width' = lo

\* ChangeDetector.set_sensitivity
SetSensitivity(lo, hi) ==
  /\ max_height' = hi
  /\ min_height' = lo
  /\ max_width' = hi
  /\ min_width' = lo

\* api.settings_handler, POST with a "sensitivity" entry
SettingsPostSensitivity(preset) ==
  /\ IF preset = "less"
     THEN SetSensitivity(Config.less_sensitivity, Config.max_width)
     ELSE IF preset = "default"
     THEN SetSensitivity(Config.min_width, Config.max_width)
     ELSE IF preset = "more"
     THEN SetSensitivity(Config.more_sensitivity, Config.max_width)
     ELSE UNCHANGED sens
  /\ op' = Op("settings", preset, "ok")
  /\ calls' = <<>>
  /\ UNCHANGED <<lapse, saver, md_image, acquired, device, cancelled, now, session, last_capture_time, avg,
                 clock, counters, pc>>

\* (mutant) the threshold itself is accepted
UpdateTimeAnswerInclusive(dt, t) ==
  IF dt # None THEN "NOT_MODIFIED"
  ELSE IF t >= MinValidTime THEN "SUCCESS"
  ELSE "ERROR"

\* (mutant) the clock may be set again
UpdateTimeAnswerAgain(dt, t) ==
  IF t > MinValidTime THEN "SUCCESS" ELSE "ERROR"

\* api.update_time: the answer to a request carrying time t
UpdateTimeAnswer(dt, t) ==
  IF dt # None THEN "NOT_MODIFIED"
  ELSE IF t > MinValidTime THEN "SUCCESS"
  ELSE "ERROR"

\* api.update_time (whole request)
UpdateTime(t) ==
  /\ LET answer == UpdateTimeAnswer(device_time, t) IN
     /\ op' = Op("update_time", t, answer)
     /\ IF answer = "SUCCESS"
        THEN /\ device_time' = t
             /\ device_time_start' = now
        ELSE UNCHANGED clock
  /\ calls' = <<>>
  /\ UNCHANGED <<lapse, saver, md_image, acquired, device, cancelled, now, session, last_capture_time, avg,
                 sens, counters, pc>>

\* the system clock moves forward
AdvanceClock(horizon) ==
  /\ now < BootTime + horizon
  /\ now' = now + 1
  /\ op' = Op("clock", "none", "ok")
  /\ calls' = <<>>
  /\ UNCHANGED <<lapse, saver, md_image, acquired, device, cancelled, session, last_capture_time, avg, sens,
                 clock, counters, pc>>

\* ------------------------------------------------------------------------
\* ChangeDetector: motion detection
\* ------------------------------------------------------------------------
NoContour == [area |-> None, w |-> None, h |-> None]

\* cv2.contourArea and cv2.boundingRect of an extracted contour
ContourArea(c) == c.area
BoundingRect(c) == [width |-> c.w, height |-> c.h]

\* np.argmax over areas[i..]: index of the first maximal element
RECURSIVE ArgMaxFrom(_, _, _)
ArgMaxFrom(areas, i, best) ==
  IF i > Len(areas) THEN best
  ELSE IF areas[i] > areas[best] THEN ArgMaxFrom(areas, i + 1, i)
  ELSE ArgMaxFrom(areas, i + 1, best)

ArgMax(areas) == ArgMaxFrom(areas, 2, 1)

\* (mutant) the scan keeps the last of several equal maxima
RECURSIVE ArgMaxLastFrom(_, _, _)
ArgMaxLastFrom(areas, i, best) ==
  IF i > Len(areas) THEN best
  ELSE IF areas[i] >= areas[best] THEN ArgMaxLastFrom(areas, i + 1, i)
  ELSE ArgMaxLastFrom(areas, i + 1, best)

get_last_largest_contour(contours) ==
  IF contours = <<>> THEN NoContour
  ELSE LET areas == [i \in 1..Len(contours) |-> ContourArea(contours[i])]
       IN contours[ArgMaxLastFrom(areas, 2, 1)]

\* (mutant) the first contour is taken, whatever its area
get_first_contour(contours) ==
  IF contours = <<>> THEN NoContour ELSE contours[1]

\* ChangeDetector.get_largest_contour
get_largest_contour(contours) ==
  IF contours = <<>> THEN NoContour
  ELSE LET areas == [i \in 1..Len(contours) |-> ContourArea(contours[i])]
       IN contours[ArgMax(areas)]

\* cvtColor + GaussianBlur: the grey image of the frame
Grey(img) == img.grey

\* cv2.accumulateWeighted(gray, avg, 0.5)
AccumulateWeighted(grey, model) == (model + grey) \div AccumulateDivisor

\* absdiff, threshold, dilate, findContours: the regions of the frame come
\* out as contours when the frame differs from the model by more than
\* delta_threshold
FindContours(img, model) ==
  LET delta == Grey(img) - model
      absdiff == IF delta < 0 THEN -delta ELSE delta
  IN IF absdiff > Config.delta_threshold THEN img.shapes ELSE <<>>

\* (mutant) the model starts as an all-zero image
SeedModelZeros(grey) == 0

\* self.avg = gray.copy().astype("float")
SeedModel(grey) == grey

\* ChangeDetector.detect_change_contours: the new background model and the
\* returned flag, from the attributes the method reads
DetectChangeContours(img, model, lo_w, hi_w, lo_h, hi_h, last, fake) ==
  IF model = None
  THEN [avg |-> SeedModel(Grey(img)), motion |-> FALSE]
  ELSE LET new_avg == AccumulateWeighted(Grey(img), model)
           cnts == FindContours(img, new_avg)
           largest_contour == get_largest_contour(cnts)
           box == BoundingRect(largest_contour)
       IN IF largest_contour = NoContour
          THEN [avg |-> new_avg, motion |-> FALSE]
          ELSE IF \/ box.width < lo_w \/ box.height < lo_h
                  \/ box.width > hi_w \/ box.height > hi_h
          THEN [avg |-> new_avg, motion |-> FALSE]
          ELSE IF fake - last >= Config.min_photo_interval_s
          THEN [avg |-> new_avg, motion |-> TRUE]
          ELSE [avg |-> new_avg, motion |-> FALSE]

detect_change_contours(img) ==
  DetectChangeContours(img, avg, min_width, max_width, min_height,
                       max_height, last_capture_time, get_fake_time)

\* ------------------------------------------------------------------------
\* CameraController: frame access
\* ------------------------------------------------------------------------
\* CameraController.get_md_image: a copy of the current frame, or None
get_md_image == image

\* CameraController.get_hires_image: "raise", "none" or "frame".
\* picamera2: the calls on self.camera raise when it is None or faulty;
\* webcam: capture.read() yields no frame when released or faulty.
GetHiresImage(pi, cam, fault) ==
  IF pi
  THEN IF cam = "closed" \/ fault THEN "raise" ELSE "frame"
  ELSE IF cam = "closed" \/ fault THEN "none" ELSE "frame"

\* CameraController.wait_recording raises only through self.camera
WaitRecordingRaises(pi, cam, fault) == pi /\ (cam = "closed" \/ fault)

\* ChangeDetector.timelapse_interval, set once in __init__
timelapse_interval == Config.timelapse_interval_s

\* ------------------------------------------------------------------------
\* ChangeDetector.update: one controller tick (run() catches what it raises)
\* ------------------------------------------------------------------------
\* (mutant) the tick does not check that a session is active
MotionModesAll == {"inactive", "photo", "video"}

\* the modes in which a tick looks for motion (line 192)
MotionModes == {"photo", "video"}

\* the test of the timelapse branch (lines 267-269)
TimelapseDue(fake, last, interval) == fake - last >= interval

\* high-resolution capture, save_image, save_thumb, last_capture_time:
\* the body shared by the photo and the timelapse branch
StillCapture(prefix, kind, fault) ==
  LET timestamp == get_formatted_time
      hires == GetHiresImage(picamera2, camera, fault) IN
  IF hires = "raise"
  THEN /\ calls' = prefix \o << Plain("get_hires_image") >>
       /\ op' = Op("update", kind, "exception")
       /\ UNCHANGED last_capture_time
  ELSE IF hires = "none"
  THEN \* imwrite(None) is caught in save_image; imutils.resize(None) raises
       /\ calls' = prefix \o << Plain("get_hires_image"),
                               Call("save_image", timestamp, "none") >>
       /\ op' = Op("update", kind, "exception")
       /\ UNCHANGED last_capture_time
  ELSE /\ calls' = prefix \o << Plain("get_hires_image"),
                               Call("save_image", timestamp, "none"),
                               Call("save_thumb", timestamp, kind) >>
       /\ op' = Op("update", kind, "captured")
       /\ last_capture_time' = get_fake_time

\* the video branch: thumbnail, wait_recording, then the circular output is
\* written to <timestamp>.h264 (FileSaver.save_video is not called)
VideoCapture(prefix, fault) ==
  LET timestamp == get_formatted_time IN
  IF WaitRecordingRaises(picamera2, camera, fault)
  THEN /\ calls' = prefix \o << Call("save_thumb", timestamp, "video"),
                               Plain("wait_recording") >>
       /\ op' = Op("update", "video", "exception")
       /\ UNCHANGED last_capture_time
  ELSE IF ~picamera2
  THEN \* camera_output exists only with picamera2: AttributeError
       /\ calls' = prefix \o << Call("save_thumb", timestamp, "video"),
                               Plain("wait_recording") >>
       /\ op' = Op("update", "video", "exception")
       /\ UNCHANGED last_capture_time
  ELSE /\ calls' = prefix \o << Call("save_thumb", timestamp, "video"),
                               Plain("wait_recording"),
                               Call("camera_output.start", timestamp, "none"),
                               Plain("camera_output.stop") >>
       /\ op' = Op("update", "video", "captured")
       /\ last_capture_time' = get_fake_time

\* the body of update() for a given timelapse interval
UpdateBody(interval, fault) ==
  IF mode \in MotionModes
  THEN LET img == get_md_image IN
       IF img # NoImage
       THEN LET d == detect_change_contours(img)
                prefix == << Plain("get_md_image"),
                             Plain("detect_change_contours") >> IN
            /\ avg' = d.avg
            /\ IF d.motion
               THEN IF mode = "photo"
                    THEN StillCapture(prefix, "photo", fault)
                    ELSE VideoCapture(prefix, fault)
               ELSE /\ fault = FALSE
                    /\ calls' = prefix
                    /\ op' = Op("update", mode, "no_motion")
                    /\ UNCHANGED last_capture_time
       ELSE \* no frame yet: log and sleep
            /\ fault = FALSE
            /\ calls' = << Plain("get_md_image") >>
            /\ op' = Op("update", mode, "no_image")
            /\ UNCHANGED <<last_capture_time, avg>>
  ELSE IF mode = "timelapse"
  THEN IF TimelapseDue(get_fake_time, last_capture_time, interval)
       THEN /\ StillCapture(<<>>, "timelapse", fault)
            /\ UNCHANGED avg
       ELSE /\ fault = FALSE
            /\ calls' = <<>>
            /\ op' = Op("update", "timelapse", "idle")
            /\ UNCHANGED <<last_capture_time, avg>>
  ELSE /\ fault = FALSE
       /\ calls' = <<>>
       /\ op' = Op("update", "inactive", "idle")
       /\ UNCHANGED <<last_capture_time, avg>>

\* one tick of a loop that was not cancelled
Update(fault) ==
  /\ ~cancelled
  /\ UpdateBody(timelapse_interval, fault)
  /\ UNCHANGED <<lapse, saver, md_image, acquired, device, cancelled, now, session, sens, clock, counters, pc>>

\* ------------------------------------------------------------------------
\* CameraController.run: one iteration of the acquisition loop
\* ------------------------------------------------------------------------
AcquireFrame(frame, fault) ==
  /\ ~stop_event
  /\ IF fault
     THEN \* the read raised: re-initialise the device
          /\ frame = NoImage
          /\ camera' = InitialisedCamera(picamera2)
          /\ op' = Op("acquire", "none", "reinit")
          /\ UNCHANGED image
     ELSE /\ image' = IF ~picamera2 /\ frame = NoImage THEN image ELSE frame
          /\ op' = Op("acquire", "none", "ok")
          /\ UNCHANGED camera
  /\ acquired' = (acquired \/ image' # NoImage)
  /\ calls' = <<>>
  /\ UNCHANGED <<lapse, saver, md_image, picamera2, stop_event, cancelled, now, session,
                 last_capture_time, avg, sens, clock, counters, pc>>

\* ------------------------------------------------------------------------
\* ChangeDetector.cancel, which calls CameraController.stop
\* ------------------------------------------------------------------------
\* (mutant) cancel also ends the session
CancelEndsSession ==
  /\ cancelled' = TRUE
  /\ stop_event' = TRUE
  /\ camera' = "closed"
  /\ mode' = "inactive"
  /\ op' = Op("cancel", "none",
              IF picamera2 /\ camera = "closed" THEN "error" ELSE "ok")
  /\ calls' = <<>>
  /\ UNCHANGED <<lapse, saver, md_image, acquired, picamera2, image, now, session_start_time,
                 last_capture_time, avg, sens, clock, counters, pc>>

Cancel ==
  /\ cancelled' = TRUE
  /\ stop_event' = TRUE
  /\ camera' = "closed"
  /\ op' = Op("cancel", "none",
              IF picamera2 /\ camera = "closed" THEN "error" ELSE "ok")
  /\ calls' = <<>>
  /\ UNCHANGED <<lapse, saver, md_image, acquired, picamera2, image, now, session, last_capture_time, avg,
                 sens, clock, counters, pc>>

\* ------------------------------------------------------------------------
\* The program, every operation running as a whole
\* ------------------------------------------------------------------------
Next ==
  \/ \E inp \in SessionInputs : StartSession(inp)
  \/ \E fault \in BOOLEAN : StopSession(fault)
  \/ \E preset \in Presets : SettingsPostSensitivity(preset)
  \/ \E t \in {MinValidTime, MinValidTime + 20} : UpdateTime(t)
  \/ AdvanceClock(MaxElapsed)
  \/ \E fault \in BOOLEAN : Update(fault)
  \/ \E frame \in AcqFrames \cup {NoImage}, fault \in BOOLEAN :
        AcquireFrame(frame, fault)
  \/ Cancel

Spec == Init /\ [][Next]_vars

\* ------------------------------------------------------------------------
\* detect_change_contours alone: its inputs are drawn by the initial state
\* ------------------------------------------------------------------------
InitDetect ==
  /\ picamera2 = TRUE
  /\ camera = InitialisedCamera(picamera2)
  /\ stop_event = FALSE
  /\ cancelled = FALSE
  /\ image \in DetectFrames
  /\ now \in BootTime..(BootTime + MaxElapsed)
  /\ mode = "photo"
  /\ session_start_time = BootTime
  /\ avg \in {None} \cup (0..2)
  /\ last_capture_time = BootTime
  /\ min_width \in {Config.less_sensitivity, Config.min_width,
                    Config.more_sensitivity}
  /\ min_height = min_width
  /\ max_width = Config.max_width
  /\ max_height = Config.max_width
  /\ device_time = None
  /\ device_time_start = None
  /\ n_start_video = 0
  /\ n_stop_video = 0
  /\ op = Op("init", "none", "ok")
  /\ calls = <<>>
  /\ acquired = TRUE
  /\ md_image = NoImage
  /\ disk_percent = StorageLimit - 1
  /\ timelapse_active = FALSE
  /\ timelapse = None
  /\ files = {}
  /\ pc = [t \in Threads |-> Idle]

\* one call detect_change_contours(img) on the current frame
Detect ==
  /\ LET d == detect_change_contours(image) IN
     /\ avg' = d.avg
     /\ op' = Op("detect", IF avg = None THEN "unseeded" ELSE "seeded",
                 IF d.motion THEN "motion" ELSE "no_motion")
  /\ calls' = <<>>
  /\ UNCHANGED <<lapse, saver, md_image, acquired, device, cancelled, now, session, last_capture_time, sens,
                 clock, counters, pc>>

NextDetect == Detect

SpecDetect == InitDetect /\ [][NextDetect]_vars

\* ------------------------------------------------------------------------
\* get_largest_contour alone, on the contour list of the current frame
\* ------------------------------------------------------------------------
LargestContour ==
  /\ op' = Op("get_largest_contour", image.shapes,
              get_largest_contour(image.shapes))
  /\ calls' = <<>>
  /\ UNCHANGED <<lapse, saver, md_image, acquired, device, cancelled, now, session, last_capture_time, avg,
                 sens, clock, counters, pc>>

NextContour == LargestContour

SpecContour == InitDetect /\ [][NextContour]_vars

\* ------------------------------------------------------------------------
\* A timelapse session alone, with the default interval of 30 seconds
\* ------------------------------------------------------------------------
UpdateTimelapse(fault) ==
  /\ ~cancelled
  /\ UpdateBody(TimelapseIntervalDefault, fault)
  /\ UNCHANGED <<lapse, saver, md_image, acquired, device, cancelled, now, session, sens, clock, counters, pc>>

NextTimelapse ==
  \/ StartSession([isStr |-> TRUE, val |-> "timelapse"])
  \/ AdvanceClock(MaxTimelapseElapsed)
  \/ \E fault \in BOOLEAN : UpdateTimelapse(fault)

SpecTimelapse == Init /\ [][NextTimelapse]_vars

\* ------------------------------------------------------------------------
\* The device clock and its readers alone, over a longer stretch of time
\* ------------------------------------------------------------------------
NextClock ==
  \/ \E t \in ClientTimes : UpdateTime(t)
  \/ AdvanceClock(ClockHorizon)
  \/ StartSession([isStr |-> TRUE, val |-> "timelapse"])
  \/ Update(FALSE)

SpecClock == Init /\ [][NextClock]_vars

\* ------------------------------------------------------------------------
\* API request threads (app.run(threaded=True)): start_session and
\* stop_session statement by statement, one request per thread at a time
\* ------------------------------------------------------------------------
At(t, where) == pc[t].at = where
Goto(t, where, kind) == pc' = [pc EXCEPT ![t] = [at |-> where, kind |-> kind]]

\* requests that have passed the point where they will call the camera
PendingStarts ==
  Cardinality({t \in Threads : pc[t].at = "start_stream" /\ pc[t].kind = "video"})
PendingStops == Cardinality({t \in Threads : pc[t].at = "stop_stream"})

\* start_session, lines 156-163: the checks and self.mode = session_mode
ReqStartSession(t, inp) ==
  /\ At(t, "idle")
  /\ StartSessionError(inp) = "ok"
  /\ inp.val = "video" => n_start_video + PendingStarts < MaxCalls
  /\ mode' = inp.val
  /\ Goto(t, "start_stream", inp.val)
  /\ UNCHANGED <<lapse, saver, md_image, acquired, device, cancelled, now, session_start_time,
                 last_capture_time, avg, sens, clock, counters, op, calls>>

\* start_session, lines 165-166: if video, start_video_stream()
ReqStartStream(t) ==
  /\ At(t, "start_stream")
  /\ IF pc[t].kind = "video"
     THEN /\ n_start_video' = n_start_video + 1
          /\ camera' = StartVideoStreamCamera(camera)
     ELSE UNCHANGED <<n_start_video, camera>>
  /\ Goto(t, "start_time", pc[t].kind)
  /\ UNCHANGED <<lapse, saver, md_image, acquired, picamera2, stop_event, cancelled, image, now, session,
                 last_capture_time, avg, sens, clock, n_stop_video, op, calls>>

\* start_session, line 167: session_start_time = get_fake_time()
ReqStartTime(t) ==
  /\ At(t, "start_time")
  /\ session_start_time' = get_fake_time
  /\ Goto(t, "idle", "none")
  /\ UNCHANGED <<lapse, saver, md_image, acquired, device, cancelled, now, mode, last_capture_time, avg, sens,
                 clock, counters, op, calls>>

\* stop_session, line 175: the test of self.mode
ReqStopSession(t) ==
  /\ At(t, "idle")
  /\ IF mode = "video"
     THEN /\ n_stop_video + PendingStops < MaxCalls
          /\ Goto(t, "stop_stream", "none")
     ELSE Goto(t, "stop_mode", "none")
  /\ UNCHANGED <<lapse, saver, md_image, acquired, device, cancelled, now, session, last_capture_time, avg,
                 sens, clock, counters, op, calls>>

\* stop_session, line 176: stop_video_stream(); an exception ends the request
ReqStopStream(t, fault) ==
  /\ At(t, "stop_stream")
  /\ n_stop_video' = n_stop_video + 1
  /\ camera' = StopVideoStreamCamera(picamera2, camera, fault)
  /\ IF StopVideoStreamRaises(picamera2, camera, fault)
     THEN Goto(t, "idle", "none")
     ELSE Goto(t, "stop_mode", "none")
  /\ UNCHANGED <<lapse, saver, md_image, acquired, picamera2, stop_event, cancelled, image, now, session,
                 last_capture_time, avg, sens, clock, n_start_video, op, calls>>

\* stop_session, line 178: self.mode = "inactive"
ReqStopMode(t) ==
  /\ At(t, "stop_mode")
  /\ mode' = "inactive"
  /\ Goto(t, "idle", "none")
  /\ UNCHANGED <<lapse, saver, md_image, acquired, device, cancelled, now, session_start_time,
                 last_capture_time, avg, sens, clock, counters, op, calls>>

NextConc ==
  \/ \E t \in Threads, inp \in SessionInputs : ReqStartSession(t, inp)
  \/ \E t \in Threads : ReqStartStream(t)
  \/ \E t \in Threads : ReqStartTime(t)
  \/ \E t \in Threads : ReqStopSession(t)
  \/ \E t \in Threads, fault \in BOOLEAN : ReqStopStream(t, fault)
  \/ \E t \in Threads : ReqStopMode(t)
  \/ AdvanceClock(MaxElapsed)

SpecConc == Init /\ [][NextConc]_vars

\* ------------------------------------------------------------------------
\* The two loops as threads, and cancel() step by step
\*   controller:  ChangeDetector.run    (change_detector.py 66-70)
\*   acquisition: CameraController.run  (camera_controller.py 114-160)
\*   canceller:   the thread that calls ChangeDetector.cancel()
\* ------------------------------------------------------------------------
LoopThreads == {"controller", "acquisition", "canceller"}

InitLoops ==
  /\ picamera2 \in BOOLEAN
  /\ camera = InitialisedCamera(picamera2)
  /\ stop_event = FALSE
  /\ cancelled = FALSE
  /\ image = NoImage
  /\ now = BootTime
  /\ mode = "inactive"
  /\ session_start_time = None
  /\ avg = None
  /\ last_capture_time = BootTime
  /\ min_width = Config.min_width
  /\ max_width = Config.max_width
  /\ min_height = Config.min_height
  /\ max_height = Config.max_height
  /\ device_time = None
  /\ device_time_start = None
  /\ n_start_video = 0
  /\ n_stop_video = 0
  /\ op = Op("init", "none", "ok")
  /\ calls = <<>>
  /\ acquired = FALSE
  /\ md_image = NoImage
  /\ disk_percent = StorageLimit - 1
  /\ timelapse_active = FALSE
  /\ timelapse = None
  /\ files = {}
  /\ pc = [t \in LoopThreads |->
             [at |-> IF t = "canceller" THEN "idle" ELSE "loop", kind |-> "none"]]

Terminated(t) == pc[t].at \in {"exit", "dead"}

\* ChangeDetector.run, line 66: while not self.cancelled
RunTest ==
  /\ At("controller", "loop")
  /\ Goto("controller", IF cancelled THEN "exit" ELSE "update", "none")
  /\ UNCHANGED <<lapse, saver, md_image, acquired, device, cancelled, now, session, last_capture_time, avg,
                 sens, clock, counters, op, calls>>

\* (mutant) no try/except around update(): an exception ends the thread
RunAfterTickUncaught(res) == IF res = "exception" THEN "dead" ELSE "loop"

\* lines 67-70: whatever update() raises is logged, the loop goes on
RunAfterTick(res) == "loop"

\* line 68: self.update()
RunUpdate(fault) ==
  /\ At("controller", "update")
  /\ UpdateBody(timelapse_interval, fault)
  /\ Goto("controller", RunAfterTick(op'.res), "none")
  /\ UNCHANGED <<lapse, saver, md_image, acquired, device, cancelled, now, session, sens, clock, counters>>

\* CameraController.run, line 114: while not self.is_stopped()
AcqTest ==
  /\ At("acquisition", "loop")
  /\ Goto("acquisition", IF stop_event THEN "exit" ELSE "read", "none")
  /\ UNCHANGED <<lapse, saver, md_image, acquired, device, cancelled, now, session, last_capture_time, avg,
                 sens, clock, counters, op, calls>>

\* what the read of lines 119 / 136-145 ends in.  picamera2: whatever
\* capture_array raises (also the AttributeError of camera = None) reaches
\* the handler of line 126; webcam: the cv2.error of read() or resize()
\* reaches the handler of line 148, and a released capture yields no frame.
ReadOutcome(pi, cam, err) ==
  IF pi
  THEN IF cam = "closed" \/ err THEN "handled" ELSE "read"
  ELSE IF err THEN "handled"
       ELSE IF cam = "closed" THEN "empty" ELSE "read"

AcqRead(frame, err) ==
  /\ At("acquisition", "read")
  /\ LET out == ReadOutcome(picamera2, camera, err) IN
     /\ out # "read" => frame = NoImage
     /\ image' = IF out = "read" /\ (picamera2 \/ frame # NoImage)
                 THEN frame ELSE image
     /\ Goto("acquisition", IF out = "handled" THEN "reinit" ELSE "loop", "none")
  /\ acquired' = (acquired \/ image' # NoImage)
  /\ UNCHANGED <<lapse, saver, md_image, picamera2, camera, stop_event, cancelled, now, session,
                 last_capture_time, avg, sens, clock, counters, op, calls>>

\* the device after initialise_picamera2 / initialise_webcam: the old
\* instance is closed first and a new one is opened (and, with picamera2,
\* starts recording), unless opening it raises
ReinitCamera(pi, err) ==
  IF err THEN "closed" ELSE InitialisedCamera(pi)

\* lines 130 / 152: the handler re-initialises the device; what the
\* re-initialisation raises is caught by nothing (line 155 catches
\* KeyboardInterrupt only) and ends the thread
AcqReinit(err) ==
  /\ At("acquisition", "reinit")
  /\ camera' = ReinitCamera(picamera2, err)
  /\ Goto("acquisition", IF err THEN "dead" ELSE "loop", "none")
  /\ UNCHANGED <<lapse, saver, md_image, acquired, picamera2, stop_event, image, cancelled, now, session,
                 last_capture_time, avg, sens, clock, counters, op, calls>>

\* ChangeDetector.cancel, line 77: self.cancelled = True
CancelFlag ==
  /\ At("canceller", "idle")
  /\ cancelled' = TRUE
  /\ Goto("canceller", "stop_set", "none")
  /\ UNCHANGED <<lapse, saver, md_image, acquired, device, now, session, last_capture_time, avg, sens, clock,
                 counters, op, calls>>

\* CameraController.stop, line 167: self._stop_event.set()
StopSet ==
  /\ At("canceller", "stop_set")
  /\ stop_event' = TRUE
  /\ Goto("canceller", "stop_close", "none")
  /\ UNCHANGED <<lapse, saver, md_image, acquired, picamera2, camera, image, cancelled, now, session,
                 last_capture_time, avg, sens, clock, counters, op, calls>>

\* lines 169-175: camera.close(); camera = None (AttributeError when it is
\* None already), or capture.release()
StopClose ==
  /\ At("canceller", "stop_close")
  /\ camera' = "closed"
  /\ Goto("canceller", "idle", "none")
  /\ UNCHANGED <<lapse, saver, md_image, acquired, picamera2, stop_event, image, cancelled, now, session,
                 last_capture_time, avg, sens, clock, counters, op, calls>>

NextLoops ==
  \/ RunTest
  \/ \E fault \in BOOLEAN : RunUpdate(fault)
  \/ AcqTest
  \/ \E frame \in AcqFrames \cup {NoImage}, err \in BOOLEAN :
        AcqRead(frame, err)
  \/ \E err \in BOOLEAN : AcqReinit(err)
  \/ CancelFlag
  \/ StopSet
  \/ StopClose
  \/ \E kind \in MotionModes : StartSession([isStr |-> TRUE, val |-> kind])
  \/ AdvanceClock(MaxElapsed)

\* the controller thread is scheduled again and again
SpecLoops ==
  /\ InitLoops
  /\ [][NextLoops]_vars
  /\ WF_vars(RunTest)
  /\ WF_vars(\E fault \in BOOLEAN : RunUpdate(fault))

\* the same threads with a device that never fails: no read, capture or
\* re-initialisation raises on its own account
NextStop ==
  \/ RunTest
  \/ RunUpdate(FALSE)
  \/ AcqTest
  \/ \E frame \in AcqFrames \cup {NoImage} : AcqRead(frame, FALSE)
  \/ AcqReinit(FALSE)
  \/ CancelFlag
  \/ StopSet
  \/ StopClose
  \/ \E kind \in MotionModes : StartSession([isStr |-> TRUE, val |-> kind])
  \/ AdvanceClock(MaxElapsed)

SpecStop == InitLoops /\ [][NextStop]_vars

\* ------------------------------------------------------------------------
\* A client of CameraController.get_md_image (the test of the file saver,
\* get_image_binary) next to the acquisition loop
\* ------------------------------------------------------------------------
\* one call of get_md_image by a client that keeps what it got
GetMdImage ==
  /\ md_image' = get_md_image
  /\ op' = Op("get_md_image", "none", IF image = NoImage THEN "None" ELSE "frame")
  /\ calls' = <<>>
  /\ UNCHANGED <<lapse, saver, acquired, device, cancelled, now, session,
                 last_capture_time, avg, sens, clock, counters, pc>>

NextFrames ==
  \/ \E frame \in AcqFrames \cup {NoImage}, fault \in BOOLEAN :
        AcquireFrame(frame, fault)
  \/ GetMdImage
  \/ Cancel
  \/ AdvanceClock(MaxElapsed)

SpecFrames == Init /\ [][NextFrames]_vars

\* ------------------------------------------------------------------------
\* FileSaver: save_image, save_thumb and save_video on the two media
\* directories.  `files` holds the paths of the files that exist and are
\* not empty.
\* ------------------------------------------------------------------------
\* the timestamps the saver is called with
Stamps == {BootTime, BootTime + 1}
\* readings of psutil.disk_usage("/").percent around the limit
DiskPercents == {StorageLimit - 1, StorageLimit, StorageLimit + 1}

\* f"{timestamp}.jpg", f"thumb_{timestamp}.jpg", f"{timestamp}.h264",
\* f"{timestamp}.mp4"
FileName(prefix, ts, ext) == [prefix |-> prefix, ts |-> ts, ext |-> ext]
ImageName(ts) == FileName("", ts, "jpg")
ThumbName(ts) == FileName("thumb_", ts, "jpg")
RawVideoName(ts) == FileName("", ts, "h264")
VideoName(ts) == FileName("", ts, "mp4")
\* the return value None
NoName == FileName("none", None, "none")
\* os.path.join(self.config["photos_path" / "videos_path"], filename)
Path(dir, name) == [dir |-> dir, name |-> name]

\* (mutant) the saver refuses only above the limit
StorageFullStrict(percent) == percent > StorageLimit

\* lines 53 / 109: self.check_storage() >= 99
StorageFull(percent) == percent >= StorageLimit

\* cv2.imwrite(path, image): raises cv2.error on an empty image, returns
\* True after writing the file and False when the file could not be written
Imwrite(img, io) ==
  IF img = NoImage THEN "raises"
  ELSE IF io THEN "written" ELSE "false"

\* (mutant) timelapse thumbnails go to the videos directory
ThumbDirPhotoOnly(media_type) ==
  IF media_type = "photo" THEN "photos" ELSE "videos"

\* lines 83-92: the directory of a thumbnail
ThumbDir(media_type) ==
  IF media_type \in {"photo", "timelapse"} THEN "photos" ELSE "videos"

\* FileSaver.save_image(image, timestamp)
SaveImage(img, ts, io) ==
  /\ IF StorageFull(disk_percent)
     THEN /\ op' = Op("save_image", ts, NoName)
          /\ calls' = <<>>
          /\ UNCHANGED files
     ELSE LET out == Imwrite(img, io) IN
          /\ files' = IF out = "written"
                      THEN files \cup {Path("photos", ImageName(ts))}
                      ELSE files
          /\ op' = Op("save_image", ts,
                      IF out = "raises" THEN NoName ELSE ImageName(ts))
          /\ calls' = << Call("imwrite", ts, "photos") >>
  /\ UNCHANGED <<lapse, disk_percent, md_image, acquired, device, cancelled, now,
                 session, last_capture_time, avg, sens, clock, counters, pc>>

\* FileSaver.save_thumb(image, timestamp, media_type)
SaveThumb(img, ts, media_type, io) ==
  /\ LET out == Imwrite(img, io)
         dir == ThumbDir(media_type) IN
     /\ files' = IF out = "written"
                 THEN files \cup {Path(dir, ThumbName(ts))}
                 ELSE files
     /\ op' = OpFrom("save_thumb", ts,
                     IF out = "raises" THEN NoName ELSE ThumbName(ts),
                     media_type)
     /\ calls' = << Call("imwrite", ts, dir) >>
  /\ UNCHANGED <<lapse, disk_percent, md_image, acquired, device, cancelled, now,
                 session, last_capture_time, avg, sens, clock, counters, pc>>

\* FileSaver.save_video(stream, timestamp): the raw stream is written, MP4Box
\* makes the mp4 of it (io: MP4Box succeeded; its exit status is not looked
\* at), the raw file is removed
SaveVideo(ts, io) ==
  /\ IF StorageFull(disk_percent)
     THEN /\ op' = Op("save_video", ts, NoName)
          /\ calls' = <<>>
          /\ UNCHANGED files
     ELSE /\ files' = (IF io THEN files \cup {Path("videos", VideoName(ts))}
                       ELSE files) \ {Path("videos", RawVideoName(ts))}
          /\ op' = Op("save_video", ts, VideoName(ts))
          /\ calls' = << Call("copy_to", ts, "videos"),
                         Call("MP4Box", ts, "videos"),
                         Call("os.remove", ts, "videos") >>
  /\ UNCHANGED <<lapse, disk_percent, md_image, acquired, device, cancelled, now,
                 session, last_capture_time, avg, sens, clock, counters, pc>>

\* the disk fills up or is cleaned by something else
DiskUsage(percent) ==
  /\ disk_percent' = percent
  /\ op' = Op("disk_usage", percent, NoName)
  /\ calls' = <<>>
  /\ UNCHANGED <<lapse, files, md_image, acquired, device, cancelled, now, session,
                 last_capture_time, avg, sens, clock, counters, pc>>

NextSaver ==
  \/ \E img \in AcqFrames \cup {NoImage}, ts \in Stamps, io \in BOOLEAN :
        SaveImage(img, ts, io)
  \/ \E img \in AcqFrames \cup {NoImage}, ts \in Stamps,
        media_type \in {"photo", "timelapse", "video", "other"},
        io \in BOOLEAN :
        SaveThumb(img, ts, media_type, io)
  \/ \E ts \in Stamps, io \in BOOLEAN : SaveVideo(ts, io)
  \/ \E percent \in DiskPercents : DiskUsage(percent)

SpecSaver == Init /\ [][NextSaver]_vars

\* ------------------------------------------------------------------------
\* Sensitivity: ChangeDetector.set_sensitivity called with any pair of
\* bounds, and the presets of the settings API, while sessions start and
\* the device clock is set
\* ------------------------------------------------------------------------
\* the bounds set_sensitivity is called with
SensitivityValues == 1..MaxSize
SensitivityPresets == {"less", "default", "more"}

\* one call change_detector.set_sensitivity(lo, hi)
SetSensitivityCall(lo, hi) ==
  /\ SetSensitivity(lo, hi)
  /\ op' = Op("set_sensitivity", lo, hi)
  /\ calls' = <<>>
  /\ UNCHANGED <<lapse, saver, md_image, acquired, device, cancelled, now, session,
                 last_capture_time, avg, clock, counters, pc>>

NextSens ==
  \/ \E lo \in SensitivityValues, hi \in SensitivityValues :
        SetSensitivityCall(lo, hi)
  \/ \E preset \in Presets : SettingsPostSensitivity(preset)
  \/ StartSession([isStr |-> TRUE, val |-> "photo"])
  \/ \E t \in ClientTimes : UpdateTime(t)
  \/ AdvanceClock(MaxElapsed)

SpecSens == Init /\ [][NextSens]_vars

\* ------------------------------------------------------------------------
\* api.update_time as request threads (app.run(threaded=True)): each
\* request of /api/time/<time_string> runs in a thread of its own, its
\* steps interleave with those of the other request.  pc[t].val is the
\* time the request carries, pc[t].kind the answer it was given.
\* ------------------------------------------------------------------------
TimeRequest(at, answer, val) == [at |-> at, kind |-> answer, val |-> val]

InitTime ==
  /\ picamera2 \in BOOLEAN
  /\ camera = InitialisedCamera(picamera2)
  /\ stop_event = FALSE
  /\ cancelled = FALSE
  /\ image = NoImage
  /\ now = BootTime
  /\ mode = "inactive"
  /\ session_start_time = None
  /\ avg = None
  /\ last_capture_time = BootTime
  /\ min_width = Config.min_width
  /\ max_width = Config.max_width
  /\ min_height = Config.min_height
  /\ max_height = Config.max_height
  /\ device_time = None
  /\ device_time_start = None
  /\ n_start_video = 0
  /\ n_stop_video = 0
  /\ op = Op("init", "none", "ok")
  /\ calls = <<>>
  /\ acquired = FALSE
  /\ md_image = NoImage
  /\ disk_percent = StorageLimit - 1
  /\ timelapse_active = FALSE
  /\ timelapse = None
  /\ files = {}
  /\ pc = [t \in Threads |-> TimeRequest("idle", "none", None)]

\* lines 221-226: the two tests of the request carrying time v
UpdateTimeTest(t, v) ==
  /\ At(t, "idle")
  /\ LET answer == UpdateTimeAnswer(device_time, v) IN
     pc' = [pc EXCEPT ![t] = IF answer = "SUCCESS"
                             THEN TimeRequest("set_time", "none", v)
                             ELSE TimeRequest("done", answer, v)]
  /\ UNCHANGED <<lapse, saver, md_image, acquired, device, cancelled, now, session,
                 last_capture_time, avg, sens, clock, counters, op, calls>>

\* line 227: change_detector.device_time = float(time_string)
UpdateTimeSetTime(t) ==
  /\ At(t, "set_time")
  /\ device_time' = pc[t].val
  /\ pc' = [pc EXCEPT ![t] = TimeRequest("set_start", "none", pc[t].val)]
  /\ UNCHANGED <<lapse, saver, md_image, acquired, device, cancelled, now, session,
                 last_capture_time, avg, sens, device_time_start, counters,
                 op, calls>>

\* lines 228-231: change_detector.device_time_start = time.time(); SUCCESS
UpdateTimeSetStart(t) ==
  /\ At(t, "set_start")
  /\ device_time_start' = now
  /\ pc' = [pc EXCEPT ![t] = TimeRequest("done", "SUCCESS", pc[t].val)]
  /\ UNCHANGED <<lapse, saver, md_image, acquired, device, cancelled, now, session,
                 last_capture_time, avg, sens, device_time, counters, op,
                 calls>>

NextTime ==
  \/ \E t \in Threads, v \in ClientTimes : UpdateTimeTest(t, v)
  \/ \E t \in Threads : UpdateTimeSetTime(t)
  \/ \E t \in Threads : UpdateTimeSetStart(t)
  \/ AdvanceClock(ClockHorizon)

SpecTime == InitTime /\ [][NextTime]_vars

\* ------------------------------------------------------------------------
\* update_time requests next to the ticks of a running timelapse session
\* ------------------------------------------------------------------------
\* get_fake_time, lines 291-293: device_time + time.time() - device_time_start
\* is a TypeError while device_time is set and device_time_start is None
GetFakeTimeRaises(dt, dts) == dt # None /\ dts = None

\* a timelapse session was started before the requests arrive
InitTimeTick ==
  /\ picamera2 \in BOOLEAN
  /\ camera = InitialisedCamera(picamera2)
  /\ stop_event = FALSE
  /\ cancelled = FALSE
  /\ image = NoImage
  /\ now = BootTime
  /\ mode = "timelapse"
  /\ session_start_time = BootTime
  /\ avg = None
  /\ last_capture_time = BootTime
  /\ min_width = Config.min_width
  /\ max_width = Config.max_width
  /\ min_height = Config.min_height
  /\ max_height = Config.max_height
  /\ device_time = None
  /\ device_time_start = None
  /\ n_start_video = 0
  /\ n_stop_video = 0
  /\ op = Op("init", "none", "ok")
  /\ calls = <<>>
  /\ acquired = FALSE
  /\ md_image = NoImage
  /\ disk_percent = StorageLimit - 1
  /\ timelapse_active = FALSE
  /\ timelapse = None
  /\ files = {}
  /\ pc = [t \in Threads |-> TimeRequest("idle", "none", None)]

\* one tick of the timelapse session: line 267 reads the fake time first
UpdateTimelapseRacing(fault) ==
  /\ ~cancelled
  /\ mode = "timelapse"
  /\ IF GetFakeTimeRaises(device_time, device_time_start)
     THEN /\ fault = FALSE
          /\ op' = Op("update", "timelapse", "exception")
          /\ calls' = <<>>
          /\ UNCHANGED <<last_capture_time, avg>>
     ELSE UpdateBody(timelapse_interval, fault)
  /\ UNCHANGED <<lapse, saver, md_image, acquired, device, cancelled, now, session,
                 sens, clock, counters, pc>>

NextTimeTick ==
  \/ \E t \in Threads, v \in ClientTimes : UpdateTimeTest(t, v)
  \/ \E t \in Threads : UpdateTimeSetTime(t)
  \/ \E t \in Threads : UpdateTimeSetStart(t)
  \/ \E fault \in BOOLEAN : UpdateTimelapseRacing(fault)
  \/ AdvanceClock(MaxElapsed)

SpecTimeTick == InitTimeTick /\ [][NextTimeTick]_vars

\* ------------------------------------------------------------------------
\* ChangeDetector.update split at the places where it reads self.mode or
\* calls a collaborator, next to start_session / stop_session requests and
\* the acquisition loop.  pc["controller"] = [at, kind, val]: the position
\* in the tick, the branch taken (the artifact being captured) and the
\* timestamp of line 204 / 274.
\* ------------------------------------------------------------------------
TickAt(at, kind, ts) == [at |-> at, kind |-> kind, val |-> ts]
TickGoto(at, kind, ts) == pc' = [pc EXCEPT !["controller"] = TickAt(at, kind, ts)]
TickIdle == TickAt("loop", "none", None)

InitTick ==
  /\ picamera2 \in BOOLEAN
  /\ camera = InitialisedCamera(picamera2)
  /\ stop_event = FALSE
  /\ cancelled = FALSE
  /\ image = NoImage
  /\ now = BootTime
  /\ mode = "inactive"
  /\ session_start_time = None
  /\ avg = None
  /\ last_capture_time = BootTime
  /\ min_width = Config.min_width
  /\ max_width = Config.max_width
  /\ min_height = Config.min_height
  /\ max_height = Config.max_height
  /\ device_time = None
  /\ device_time_start = None
  /\ n_start_video = 0
  /\ n_stop_video = 0
  /\ op = Op("init", "none", "ok")
  /\ calls = <<>>
  /\ acquired = FALSE
  /\ md_image = NoImage
  /\ disk_percent = StorageLimit - 1
  /\ timelapse_active = FALSE
  /\ timelapse = None
  /\ files = {}
  /\ pc = [t \in {"controller"} |-> TickIdle]

\* line 192: if self.mode in ["photo", "video"]
TickEnter ==
  /\ At("controller", "loop")
  /\ TickGoto(IF mode \in MotionModes THEN "detect" ELSE "elif", "none", None)
  /\ op' = Op("tick", "enter", "ok")
  /\ calls' = <<>>
  /\ UNCHANGED <<last_capture_time, avg>>
  /\ UNCHANGED <<lapse, saver, md_image, acquired, device, cancelled, now, session,
                 sens, clock, counters>>

\* lines 266-269: elif self.mode == "timelapse", and the interval test
TickElif ==
  /\ At("controller", "elif")
  /\ IF mode = "timelapse"
        /\ TimelapseDue(get_fake_time, last_capture_time, timelapse_interval)
     THEN TickGoto("capture", "timelapse", get_formatted_time)
     ELSE TickGoto("loop", "none", None)
  /\ op' = Op("tick", "elif", "ok")
  /\ calls' = <<>>
  /\ UNCHANGED <<last_capture_time, avg>>
  /\ UNCHANGED <<lapse, saver, md_image, acquired, device, cancelled, now, session,
                 sens, clock, counters>>

\* lines 194-204: get_md_image, detect_change_contours, the timestamp
TickDetect ==
  /\ At("controller", "detect")
  /\ LET img == get_md_image IN
     IF img = NoImage
     THEN /\ TickGoto("loop", "none", None)
          /\ op' = Op("tick", "detect", "no_image")
          /\ calls' = << Plain("get_md_image") >>
          /\ UNCHANGED avg
     ELSE LET d == detect_change_contours(img) IN
          /\ avg' = d.avg
          /\ calls' = << Plain("get_md_image"), Plain("detect_change_contours") >>
          /\ op' = Op("tick", "detect", IF d.motion THEN "motion" ELSE "no_motion")
          /\ IF d.motion
             THEN TickGoto("branch", "none", get_formatted_time)
             ELSE TickGoto("loop", "none", None)
  /\ UNCHANGED last_capture_time
  /\ UNCHANGED <<lapse, saver, md_image, acquired, device, cancelled, now, session,
                 sens, clock, counters>>

\* line 205: if self.mode == "photo"
TickBranch ==
  /\ At("controller", "branch")
  /\ IF mode = "photo"
     THEN TickGoto("capture", "photo", pc["controller"].val)
     ELSE TickGoto("branch_video", "none", pc["controller"].val)
  /\ op' = Op("tick", "branch", "ok")
  /\ calls' = <<>>
  /\ UNCHANGED <<last_capture_time, avg>>
  /\ UNCHANGED <<lapse, saver, md_image, acquired, device, cancelled, now, session,
                 sens, clock, counters>>

\* line 221: elif self.mode == "video"
TickBranchVideo ==
  /\ At("controller", "branch_video")
  /\ IF mode = "video"
     THEN TickGoto("thumb", "video", pc["controller"].val)
     ELSE TickGoto("loop", "none", None)
  /\ op' = Op("tick", "branch_video", "ok")
  /\ calls' = <<>>
  /\ UNCHANGED <<last_capture_time, avg>>
  /\ UNCHANGED <<lapse, saver, md_image, acquired, device, cancelled, now, session,
                 sens, clock, counters>>

\* lines 207-210 / 275-277: get_hires_image and save_image; the argument of
\* imutils.resize is evaluated before save_thumb reads self.mode
TickCapture ==
  /\ At("controller", "capture")
  /\ LET kind == pc["controller"].kind
         ts == pc["controller"].val
         hires == GetHiresImage(picamera2, camera, FALSE) IN
     IF hires = "raise"
     THEN /\ calls' = << Plain("get_hires_image") >>
          /\ op' = OpFrom("tick", "capture", "exception", kind)
          /\ TickGoto("loop", "none", None)
     ELSE IF hires = "none"
     THEN /\ calls' = << Plain("get_hires_image"), Call("save_image", ts, "none") >>
          /\ op' = OpFrom("tick", "capture", "exception", kind)
          /\ TickGoto("loop", "none", None)
     ELSE /\ calls' = << Plain("get_hires_image"), Call("save_image", ts, "none") >>
          /\ op' = OpFrom("tick", "capture", "ok", kind)
          /\ TickGoto("thumb", kind, ts)
  /\ UNCHANGED <<last_capture_time, avg>>
  /\ UNCHANGED <<lapse, saver, md_image, acquired, device, cancelled, now, session,
                 sens, clock, counters>>

\* lines 211-217 / 223 / 278-283: save_thumb(..., timestamp, self.mode); the
\* media type is the mode as it is now, not the branch the tick is in
TickThumb ==
  /\ At("controller", "thumb")
  /\ LET kind == pc["controller"].kind
         ts == pc["controller"].val IN
     /\ calls' = << Call("save_thumb", ts, mode) >>
     /\ op' = OpFrom("tick", "save_thumb", ThumbDir(mode), kind)
     /\ IF kind = "video"
        THEN /\ TickGoto("wait", kind, ts)
             /\ UNCHANGED last_capture_time
        ELSE /\ TickGoto("loop", "none", None)
             /\ last_capture_time' = get_fake_time
  /\ UNCHANGED avg
  /\ UNCHANGED <<lapse, saver, md_image, acquired, device, cancelled, now, session,
                 sens, clock, counters>>

\* line 227: wait_recording
TickWait ==
  /\ At("controller", "wait")
  /\ calls' = << Plain("wait_recording") >>
  /\ IF WaitRecordingRaises(picamera2, camera, FALSE)
     THEN /\ op' = OpFrom("tick", "wait_recording", "exception", "video")
          /\ TickGoto("loop", "none", None)
     ELSE /\ op' = OpFrom("tick", "wait_recording", "ok", "video")
          /\ TickGoto("output", "video", pc["controller"].val)
  /\ UNCHANGED <<last_capture_time, avg>>
  /\ UNCHANGED <<lapse, saver, md_image, acquired, device, cancelled, now, session,
                 sens, clock, counters>>

\* lines 241-252: the circular output is written to <timestamp>.h264
TickOutput ==
  /\ At("controller", "output")
  /\ IF ~picamera2
     THEN /\ calls' = <<>>
          /\ op' = OpFrom("tick", "output", "exception", "video")
          /\ UNCHANGED last_capture_time
     ELSE /\ calls' = << Call("camera_output.start", pc["controller"].val, "none"),
                         Plain("camera_output.stop") >>
          /\ op' = OpFrom("tick", "output", "ok", "video")
          /\ last_capture_time' = get_fake_time
  /\ TickGoto("loop", "none", None)
  /\ UNCHANGED avg
  /\ UNCHANGED <<lapse, saver, md_image, acquired, device, cancelled, now, session,
                 sens, clock, counters>>

NextTick ==
  \/ TickEnter
  \/ TickElif
  \/ TickDetect
  \/ TickBranch
  \/ TickBranchVideo
  \/ TickCapture
  \/ TickThumb
  \/ TickWait
  \/ TickOutput
  \/ \E kind \in SessionKinds : StartSession([isStr |-> TRUE, val |-> kind])
  \/ StopSession(FALSE)
  \/ \E frame \in AcqFrames : AcquireFrame(frame, FALSE)
  \/ AdvanceClock(MaxElapsed)

SpecTick == InitTick /\ [][NextTick]_vars

\* ------------------------------------------------------------------------
\* get_md_image in the thread of a client (a request serving the feed, the
\* controller tick) next to the acquisition loop: the method reads
\* self.image twice
\* ------------------------------------------------------------------------
InitMdRace ==
  /\ picamera2 \in BOOLEAN
  /\ camera = InitialisedCamera(picamera2)
  /\ stop_event = FALSE
  /\ cancelled = FALSE
  /\ image = NoImage
  /\ now = BootTime
  /\ mode = "inactive"
  /\ session_start_time = None
  /\ avg = None
  /\ last_capture_time = BootTime
  /\ min_width = Config.min_width
  /\ max_width = Config.max_width
  /\ min_height = Config.min_height
  /\ max_height = Config.max_height
  /\ device_time = None
  /\ device_time_start = None
  /\ n_start_video = 0
  /\ n_stop_video = 0
  /\ op = Op("init", "none", "ok")
  /\ calls = <<>>
  /\ acquired = FALSE
  /\ md_image = NoImage
  /\ disk_percent = StorageLimit - 1
  /\ timelapse_active = FALSE
  /\ timelapse = None
  /\ files = {}
  /\ pc = [t \in {"client"} |-> Idle]

\* cv2.cvtColor(src, code) raises cv2.error when src is None
CvtColorRaises(src) == src = NoImage

\* line 191: if self.image is not None (else: return None, line 194)
GetMdImageTest ==
  /\ At("client", "idle")
  /\ IF image # NoImage
     THEN /\ Goto("client", "convert", "none")
          /\ UNCHANGED <<md_image, op>>
     ELSE /\ Goto("client", "idle", "none")
          /\ md_image' = NoImage
          /\ op' = Op("get_md_image", "none", "None")
  /\ calls' = <<>>
  /\ UNCHANGED <<lapse, saver, acquired, device, cancelled, now, session,
                 last_capture_time, avg, sens, clock, counters>>

\* lines 192-193: cv2.cvtColor(self.image, ...) reads the attribute again;
\* return md_image.copy()
GetMdImageConvert ==
  /\ At("client", "convert")
  /\ IF CvtColorRaises(image)
     THEN /\ op' = Op("get_md_image", "none", "raise")
          /\ UNCHANGED md_image
     ELSE /\ op' = Op("get_md_image", "none", "frame")
          /\ md_image' = image
  /\ Goto("client", "idle", "none")
  /\ calls' = <<>>
  /\ UNCHANGED <<lapse, saver, acquired, device, cancelled, now, session,
                 last_capture_time, avg, sens, clock, counters>>

NextMdRace ==
  \/ GetMdImageTest
  \/ GetMdImageConvert
  \/ \E frame \in AcqFrames \cup {NoImage}, fault \in BOOLEAN :
        AcquireFrame(frame, fault)
  \/ Cancel
  \/ AdvanceClock(MaxElapsed)

SpecMdRace == InitMdRace /\ [][NextMdRace]_vars

\* ------------------------------------------------------------------------
\* The controller tick together with the files its saver calls leave in
\* the media directories (every write the saver attempts succeeds)
\* ------------------------------------------------------------------------
\* the directories after one saver call made by the tick at a disk usage
FilesAfterCall(fs, c, percent) ==
  IF c.fn = "save_image"
  THEN IF StorageFull(percent) THEN fs
       ELSE fs \cup {Path("photos", ImageName(c.ts))}
  ELSE IF c.fn = "save_thumb"
  THEN fs \cup {Path(ThumbDir(c.kind), ThumbName(c.ts))}
  ELSE fs

RECURSIVE FilesAfterCalls(_, _, _)
FilesAfterCalls(fs, cs, percent) ==
  IF cs = <<>> THEN fs
  ELSE FilesAfterCalls(FilesAfterCall(fs, Head(cs), percent), Tail(cs), percent)

\* one tick of update() with a camera that delivers, and what it stores
UpdateSaving ==
  /\ ~cancelled
  /\ UpdateBody(timelapse_interval, FALSE)
  /\ files' = FilesAfterCalls(files, calls', disk_percent)
  /\ UNCHANGED <<lapse, disk_percent, md_image, acquired, device, cancelled, now,
                 session, sens, clock, counters, pc>>

NextSaving ==
  \/ UpdateSaving
  \/ \E kind \in SessionKinds : StartSession([isStr |-> TRUE, val |-> kind])
  \/ StopSession(FALSE)
  \/ \E frame \in AcqFrames : AcquireFrame(frame, FALSE)
  \/ \E percent \in DiskPercents : DiskUsage(percent)
  \/ AdvanceClock(MaxElapsed)

SpecSaving == Init /\ [][NextSaving]_vars

\* ------------------------------------------------------------------------
\* The timelapse settings: /api/settings and the timelapse tick
\* ------------------------------------------------------------------------
\* construct_settings_object reads change_detector.timelapse_active and
\* change_detector.timelapse; __init__ creates timelapse_active and
\* timelapse_interval, so that the attribute timelapse exists only once a
\* POST has created it
ConstructSettingsRaises(tl) == tl = None

\* GET /api/settings
SettingsGet ==
  /\ op' = Op("settings_get",
              timelapse,
              IF ConstructSettingsRaises(timelapse)
              THEN "AttributeError" ELSE "ok")
  /\ calls' = <<>>
  /\ UNCHANGED <<lapse, saver, md_image, acquired, device, cancelled, now,
                 session, last_capture_time, avg, sens, clock, counters, pc>>

\* POST /api/settings with a "timelapse" entry: the two attributes are
\* written, then the settings object is built from them
SettingsPostTimelapse(active, interval) ==
  /\ timelapse_active' = active
  /\ timelapse' = interval
  /\ op' = Op("settings_post",
              timelapse',
              IF ConstructSettingsRaises(timelapse')
              THEN "AttributeError" ELSE "ok")
  /\ calls' = <<>>
  /\ UNCHANGED <<saver, md_image, acquired, device, cancelled, now,
                 session, last_capture_time, avg, sens, clock, counters, pc>>

NextSettings ==
  \/ StartSession([isStr |-> TRUE, val |-> "timelapse"])
  \/ SettingsGet
  \/ \E active \in BOOLEAN, interval \in {2, 3} :
        SettingsPostTimelapse(active, interval)
  \/ AdvanceClock(MaxElapsed)
  \/ \E fault \in BOOLEAN : Update(fault)

SpecSettings == Init /\ [][NextSettings]_vars

\* ------------------------------------------------------------------------
\* Starting the acquisition thread: api.generate_jpg / generate_mjpg and the
\* test fixture start the CameraController when they find it not alive.
\* pc["acquisition"].at = "new" is the thread object before its start.
\* ------------------------------------------------------------------------
Requests == {"request1", "request2"}
StartThreads == Requests \cup {"acquisition", "canceller"}

\* Thread.is_alive(): started and not yet ended
IsAlive(at) == at \notin {"new", "exit", "dead"}

\* Thread.start() of the CameraController: a thread object can be started
\* once; any further call raises RuntimeError
ThreadStartRaises(at) == at # "new"

\* the application object right after create_app (thread not started, as in
\* the tests) or after __main__ started the controller
InitStart ==
  /\ picamera2 \in BOOLEAN
  /\ camera = InitialisedCamera(picamera2)
  /\ stop_event = FALSE
  /\ cancelled = FALSE
  /\ image = NoImage
  /\ now = BootTime
  /\ mode = "inactive"
  /\ session_start_time = None
  /\ avg = None
  /\ last_capture_time = BootTime
  /\ min_width = Config.min_width
  /\ max_width = Config.max_width
  /\ min_height = Config.min_height
  /\ max_height = Config.max_height
  /\ device_time = None
  /\ device_time_start = None
  /\ n_start_video = 0
  /\ n_stop_video = 0
  /\ op = Op("init", "none", "ok")
  /\ calls = <<>>
  /\ acquired = FALSE
  /\ md_image = NoImage
  /\ disk_percent = StorageLimit - 1
  /\ timelapse_active = FALSE
  /\ timelapse = None
  /\ files = {}
  /\ \E at0 \in {"new", "loop"} :
        pc = [t \in StartThreads |->
                [at |-> IF t = "acquisition" THEN at0 ELSE "idle",
                 kind |-> "none"]]

\* api.py lines 28 / 57: while camera_controller.is_alive() is False
GenTest(t) ==
  /\ pc[t].at \in {"idle", "sleep"}
  /\ Goto(t, IF IsAlive(pc["acquisition"].at) THEN "serve" ELSE "start", "none")
  /\ UNCHANGED <<lapse, saver, md_image, acquired, device, cancelled, now, session,
                 last_capture_time, avg, sens, clock, counters, op, calls>>

\* api.py lines 29 / 58: camera_controller.start(); the RuntimeError of a
\* second start is caught nowhere and ends the request
GenStart(t) ==
  /\ At(t, "start")
  /\ pc' = IF ThreadStartRaises(pc["acquisition"].at)
           THEN [pc EXCEPT ![t] = [at |-> "raised", kind |-> "none"]]
           ELSE [pc EXCEPT ![t] = [at |-> "sleep", kind |-> "none"],
                           !["acquisition"] = [at |-> "loop", kind |-> "none"]]
  /\ UNCHANGED <<lapse, saver, md_image, acquired, device, cancelled, now, session,
                 last_capture_time, avg, sens, clock, counters, op, calls>>

\* the request is answered (a frame, or the error page) and the worker is
\* free for the next request
GenDone(t) ==
  /\ pc[t].at \in {"serve", "raised"}
  /\ Goto(t, "idle", "none")
  /\ UNCHANGED <<lapse, saver, md_image, acquired, device, cancelled, now, session,
                 last_capture_time, avg, sens, clock, counters, op, calls>>

NextStart ==
  \/ \E t \in Requests : GenTest(t)
  \/ \E t \in Requests : GenStart(t)
  \/ \E t \in Requests : GenDone(t)
  \/ AcqTest
  \/ \E frame \in AcqFrames \cup {NoImage} : AcqRead(frame, FALSE)
  \/ AcqReinit(FALSE)
  \/ CancelFlag
  \/ StopSet
  \/ StopClose

SpecStart == InitStart /\ [][NextStart]_vars

\* ------------------------------------------------------------------------
\* Properties
\* ------------------------------------------------------------------------
\* C1: mode is always one of inactive, photo, video, timelapse; it is
\* inactive initially; and a step changes it only as start_session (to the
\* requested kind) or stop_session (to inactive) - never a tick, a
\* sensitivity or settings change, a clock operation or cancel.
C1_ModeChangesOnlyBySession ==
  /\ mode = "inactive"
  /\ [](mode \in Modes)
  /\ [][mode' # mode =>
          \/ /\ op'.name = "start_session"
             /\ op'.res = "ok"
             /\ mode' = op'.arg
          \/ /\ op'.name = "stop_session"
             /\ mode' = "inactive"]_vars

\* a session is running and operations other than the session calls ran
C1_Witness ==
  /\ mode = "timelapse"
  /\ op.name = "update_time"
  /\ op.res = "SUCCESS"

\* C2: start_session with a kind other than photo, video, timelapse (or a
\* non-string) is answered with an error and leaves mode,
\* session_start_time, last_capture_time and the camera untouched, and
\* start_video_stream is not called.
C2_InvalidKindRejected ==
  [][(op'.name = "start_session" /\ op'.arg \notin SessionKinds) =>
       /\ op'.res \in {"TypeError", "ValueError"}
       /\ calls' = <<>>
       /\ UNCHANGED <<mode, session_start_time, last_capture_time, camera>>]_vars

\* an invalid kind was rejected while a video session was running
C2_Witness ==
  /\ op.name = "start_session"
  /\ op.res = "ValueError"
  /\ op.arg = "inactive"
  /\ mode = "video"
  /\ calls = <<>>

\* C3: right after start_session(kind), kind in photo/video/timelapse,
\* called in any mode: the call succeeded, mode = kind, session_start_time
\* is the current fake time, and start_video_stream was called exactly once
\* if kind = video and not at all otherwise.
C3_StartSessionEffect ==
  (op.name = "start_session" /\ op.arg \in SessionKinds) =>
     /\ op.res = "ok"
     /\ mode = op.arg
     /\ session_start_time = get_fake_time
     /\ calls = IF op.arg = "video" THEN << Plain("start_video_stream") >> ELSE <<>>

\* a video session was started from a timelapse session, with the clock set
C3_Witness ==
  /\ op.name = "start_session"
  /\ op.arg = "video"
  /\ op.mode0 = "timelapse"
  /\ device_time # None
  /\ now > device_time_start
  /\ mode = "video"

\* C4: right after stop_session, called in any mode, mode = inactive (also
\* when stop_video_stream failed), and stop_video_stream was called exactly
\* once if the mode was video at the call and not at all otherwise.
C4_StopSessionEffect ==
  op.name = "stop_session" =>
     /\ mode = "inactive"
     /\ calls = IF op.mode0 = "video" THEN << Plain("stop_video_stream") >> ELSE <<>>

\* C5: the number of stop_video_stream calls made never exceeds the number
\* of start_video_stream calls made.
C5_StopsAtMostStarts == n_stop_video <= n_start_video

C7_ClockSetOnce ==
  [][op'.name = "update_time" =>
       IF device_time # None
       THEN /\ op'.res = "NOT_MODIFIED"
            /\ UNCHANGED <<device_time, device_time_start>>
            /\ get_fake_time' = FakeTime(device_time, device_time_start, now')
       ELSE IF op'.arg <= MinValidTime
       THEN /\ op'.res = "ERROR"
            /\ device_time' = None
            /\ device_time_start' = None
       ELSE /\ op'.res = "SUCCESS"
            /\ device_time' = op'.arg
            /\ device_time_start' = now]_vars

\* a later request with another acceptable value was refused
C7_Witness ==
  /\ op.name = "update_time"
  /\ op.res = "NOT_MODIFIED"
  /\ op.arg > MinValidTime
  /\ op.arg # device_time
  /\ now > device_time_start

\* C8: once the clock is set, device_time never decreases and, the system
\* clock being non-decreasing, get_fake_time never decreases.
C8_ClockNeverRegresses ==
  [][device_time # None =>
       /\ device_time' >= device_time
       /\ get_fake_time' >= get_fake_time]_vars

\* the clock was set, time passed and a smaller value was offered
C8_Witness ==
  /\ device_time # None
  /\ op.name = "update_time"
  /\ op.arg > MinValidTime
  /\ op.arg < device_time
  /\ now > device_time_start

\* C9: a detect_change_contours call made while the background model is
\* unset sets the model to the grey image of that frame and returns False,
\* whatever the frame, the sensitivity bounds and the elapsed time.
C9_FirstCallSeeds ==
  [][(op'.name = "detect" /\ avg = None) =>
       /\ avg' = Grey(image)
       /\ op'.res = "no_motion"]_vars

\* the seeding call ran on a bright frame whose contour is within bounds,
\* with the capture interval elapsed
C9_Witness ==
  /\ op.name = "detect"
  /\ op.arg = "unseeded"
  /\ image.grey = 2
  /\ avg = 2
  /\ image.shapes = << [area |-> 2, w |-> 2, h |-> 2] >>
  /\ min_width = Config.min_width
  /\ get_fake_time - last_capture_time >= Config.min_photo_interval_s

\* the contours of the frame img against the model as updated by the call
CntsAfter(img, model) == FindContours(img, model)

\* the i-th contour has the largest area, the first one among equals
IsLargest(cnts, i) ==
  /\ \A j \in 1..Len(cnts) : cnts[j].area <= cnts[i].area
  /\ \A j \in 1..(i - 1) : cnts[j].area < cnts[i].area

InBounds(c) ==
  /\ min_width <= c.w /\ c.w <= max_width
  /\ min_height <= c.h /\ c.h <= max_height

\* C10: with the model seeded, detect_change_contours returns True exactly
\* when a contour exists, the bounding box of the largest-area contour is
\* within [min_width, max_width] x [min_height, max_height], and
\* get_fake_time() - last_capture_time >= min_photo_interval_s.
C10_MotionExactlyWhen ==
  [][(op'.name = "detect" /\ avg # None) =>
       LET cnts == CntsAfter(image, avg') IN
       (op'.res = "motion") <=>
          /\ \E i \in 1..Len(cnts) : IsLargest(cnts, i) /\ InBounds(cnts[i])
          /\ get_fake_time - last_capture_time >= Config.min_photo_interval_s]_vars

\* no motion: the largest contour is out of bounds although a smaller one
\* is within bounds and the interval has elapsed
C10_Witness ==
  /\ op.name = "detect"
  /\ op.arg = "seeded"
  /\ op.res = "no_motion"
  /\ LET cnts == CntsAfter(image, avg) IN
     /\ Len(cnts) = 2
     /\ \E i \in 1..2 : IsLargest(cnts, i) /\ ~InBounds(cnts[i])
     /\ \E i \in 1..2 : ~IsLargest(cnts, i) /\ InBounds(cnts[i])
  /\ get_fake_time - last_capture_time >= Config.min_photo_interval_s

\* C11: get_largest_contour returns None for an empty contour list and
\* otherwise a contour of the list whose area no other contour exceeds;
\* when several contours have that area it returns the first of them in
\* the order of the list.
C11_LargestContourFirstMax ==
  op.name = "get_largest_contour" =>
     IF op.arg = <<>>
     THEN op.res = NoContour
     ELSE \E i \in 1..Len(op.arg) :
             /\ IsLargest(op.arg, i)
             /\ op.res = op.arg[i]

\* two different contours share the maximal area and the first was returned
C11_Witness ==
  /\ op.name = "get_largest_contour"
  /\ Len(op.arg) = 2
  /\ op.arg[1].area = op.arg[2].area
  /\ op.arg[1] # op.arg[2]
  /\ op.res = op.arg[1]

\* C12: a tick executed while mode = inactive does no work: it reads no
\* frame, runs no detection, calls no camera or file-saver operation (it
\* makes no collaborator call at all), and leaves mode, last_capture_time,
\* the background model, the sensitivity bounds, the current frame and the
\* camera unchanged.
C12_InactiveTickIdle ==
  [][(op'.name = "update" /\ mode = "inactive") =>
       /\ calls' = <<>>
       /\ op'.res = "idle"
       /\ UNCHANGED <<mode, last_capture_time, avg, sens, image, camera>>]_vars

\* an inactive tick ran with a frame available, the model seeded by an
\* earlier session and the capture interval elapsed
C12_Witness ==
  /\ op.name = "update"
  /\ op.arg = "inactive"
  /\ mode = "inactive"
  /\ image # NoImage
  /\ avg # None
  /\ get_fake_time - last_capture_time >= Config.min_photo_interval_s

\* how many calls of fn a tick made, and the positions of its save calls
CountCalls(seq, fn) == Cardinality({i \in 1..Len(seq) : seq[i].fn = fn})
SaveCalls(seq) ==
  {i \in 1..Len(seq) : seq[i].fn \in {"save_image", "save_thumb"}}

\* the tick about to run finds a frame and detects motion in it
PositiveDetection ==
  /\ image # NoImage
  /\ detect_change_contours(image).motion

\* C13: a photo-mode tick with a positive detection makes exactly one
\* high-resolution capture, exactly one save_image and exactly one
\* save_thumb of kind photo, both with the timestamp taken at the
\* detection, and then sets last_capture_time to the current fake time; a
\* photo-mode tick without a positive detection, or without a frame, makes
\* no capture and no save and leaves last_capture_time unchanged.
C13_PhotoTick ==
  [][(op'.name = "update" /\ mode = "photo") =>
       IF PositiveDetection
       THEN /\ CountCalls(calls', "get_hires_image") = 1
            /\ CountCalls(calls', "save_image") = 1
            /\ CountCalls(calls', "save_thumb") = 1
            /\ \A i \in SaveCalls(calls') :
                  /\ calls'[i].ts = get_formatted_time
                  /\ calls'[i].fn = "save_thumb" => calls'[i].kind = "photo"
            /\ last_capture_time' = get_fake_time'
       ELSE /\ CountCalls(calls', "get_hires_image") = 0
            /\ SaveCalls(calls') = {}
            /\ UNCHANGED last_capture_time]_vars

\* the call that writes the video buffer out: FileSaver.save_video, or the
\* end of the circular output's write to the video file
IsFlush(c) == c.fn \in {"save_video", "camera_output.stop"}

\* C14: a video-mode tick with a positive detection saves the motion frame
\* as a thumbnail of kind video, then waits the post-motion duration, then
\* flushes the video buffer to storage, and then sets last_capture_time to
\* the current fake time - with the camera module and with the fallback
\* device.
C14_VideoTick ==
  [][(op'.name = "update" /\ mode = "video" /\ PositiveDetection) =>
       /\ \E i, j, k \in 1..Len(calls') :
             /\ i < j /\ j < k
             /\ calls'[i] = Call("save_thumb", get_formatted_time, "video")
             /\ calls'[j].fn = "wait_recording"
             /\ IsFlush(calls'[k])
       /\ last_capture_time' = get_fake_time']_vars

\* the call of a tick that stores the full capture: the image, or the video
IsFullSave(c) == c.fn = "save_image" \/ IsFlush(c)

\* C15: within one tick, in the photo, the video and the timelapse branch,
\* the thumbnail is saved before the full capture is saved (the image) or
\* flushed (the video).
C15_ThumbBeforeFull ==
  op.name = "update" =>
     \A i, j \in 1..Len(calls) :
        (calls[i].fn = "save_thumb" /\ IsFullSave(calls[j])) => i < j

\* C16: in a tick that attempts a capture (it detected motion, or the
\* timelapse interval had elapsed), last_capture_time is assigned after the
\* save attempt, whether the attempt succeeded or failed: right after such
\* a tick last_capture_time is the current fake time, so that the next
\* capture is at least min_photo_interval_s away.
C16_CaptureTimeAlwaysSet ==
  (op.name = "update" /\ CountCalls(calls, "get_hires_image")
                          + CountCalls(calls, "save_thumb") > 0) =>
     last_capture_time = get_fake_time

\* C17: a timelapse-mode tick captures exactly when get_fake_time() -
\* last_capture_time >= timelapse_interval.  With the interval 30 and
\* last_capture_time = t0, a tick at t0 + 29 makes no call and changes
\* nothing; a tick at t0 + 31 makes exactly one high-resolution capture, one
\* save_image and one save_thumb of kind timelapse and sets
\* last_capture_time to the current fake time.
C17_TimelapseTick ==
  [][(op'.name = "update" /\ mode = "timelapse") =>
       IF get_fake_time - last_capture_time >= TimelapseIntervalDefault
       THEN /\ CountCalls(calls', "get_hires_image") = 1
            /\ CountCalls(calls', "save_image") = 1
            /\ CountCalls(calls', "save_thumb") = 1
            /\ \A i \in SaveCalls(calls') :
                  calls'[i].fn = "save_thumb" => calls'[i].kind = "timelapse"
            /\ last_capture_time' = get_fake_time'
       ELSE /\ calls' = <<>>
            /\ UNCHANGED <<mode, last_capture_time, avg, sens, image, camera>>]_vars

\* C18: whatever a tick raises is caught at the loop boundary and the
\* controller loop goes on to its next test; the loop is left only with the
\* stop flag set by cancel(); and once cancel() has set the flag the loop
\* eventually ends.
C18_LoopEndsOnlyOnCancel ==
  /\ [](Terminated("controller") => cancelled)
  /\ [][At("controller", "update") => pc'["controller"].at \in {"update", "loop"}]_vars
  /\ (cancelled ~> Terminated("controller"))

\* a tick raised, the loop is back at its test and nobody has cancelled it
C18_Witness ==
  /\ op.name = "update"
  /\ op.res = "exception"
  /\ At("controller", "loop")
  /\ ~cancelled

\* C19: the acquisition loop ends only after stop() has been called,
\* whatever the reads and the re-initialisations raise, with the camera
\* module and with the fallback webcam.
C19_AcquisitionNeverDies ==
  Terminated("acquisition") => stop_event

\* C20: once cancel() has run to its end and the acquisition loop has
\* ended, the camera device is released, under every interleaving of stop()
\* with the iteration of the acquisition loop that is in flight.
C20_ReleasedAfterStop ==
  (At("canceller", "idle") /\ cancelled /\ At("acquisition", "exit")) =>
     camera = "closed"


\* ------------------------------------------------------------------------
\* C21: starting the acquisition is idempotent: whenever a request (or a
\* test) calls start() on the CameraController, the call raises no error
\* and the acquisition loop is running afterwards.
\* ------------------------------------------------------------------------
C21_StartIdempotent ==
  [][\A t \in Requests :
        (At(t, "start") /\ pc'[t].at # "start")
        => /\ pc'[t].at # "raised"
           /\ IsAlive(pc'["acquisition"].at)]_vars


\* ------------------------------------------------------------------------
\* C22: get_md_image returns None exactly when the acquisition has not yet
\* stored a frame; once a frame has been stored, a call returns the frame
\* stored last, and what a call returned is not altered by later steps of
\* the acquisition loop.
\* ------------------------------------------------------------------------
C22_MdImageLatestFrame ==
  [][/\ op'.name = "get_md_image"
        => /\ (md_image' = NoImage) <=> ~acquired
           /\ acquired => md_image' = image
     /\ op'.name # "get_md_image" => md_image' = md_image]_vars


\* ------------------------------------------------------------------------
\* C23: with a disk usage of 99% or more save_image and save_video return
\* None and create, change or delete no file; below 99% they go on to
\* write (the image, the raw video).
\* ------------------------------------------------------------------------
C23_RefuseWhenFull ==
  [][op'.name \in {"save_image", "save_video"}
     => IF disk_percent >= 99
        THEN /\ op'.res = NoName
             /\ files' = files
             /\ calls' = <<>>
        ELSE /\ calls' # <<>>
             /\ calls'[1].fn = (IF op'.name = "save_image"
                                THEN "imwrite" ELSE "copy_to")]_vars

C23_Witness ==
  /\ op.name = "save_video"
  /\ disk_percent = 99
  /\ op.res = NoName
  /\ files # {}


\* ------------------------------------------------------------------------
\* C24: save_thumb makes no storage check; at any disk usage it hands
\* thumb_{timestamp}.jpg to cv2.imwrite, under the photos directory for the
\* kinds photo and timelapse and under the videos directory for every other
\* kind; it returns that filename, or None when the encoder raised (nothing
\* is written then), and touches no other file.
\* ------------------------------------------------------------------------
C24_ThumbAttempt ==
  [][op'.name = "save_thumb"
     => LET dir == IF op'.mode0 \in {"photo", "timelapse"}
                   THEN "photos" ELSE "videos"
            thumb == FileName("thumb_", op'.arg, "jpg")
        IN /\ calls' = << Call("imwrite", op'.arg, dir) >>
           /\ op'.res \in {thumb, NoName}
           /\ op'.res = NoName => files' = files
           /\ files \subseteq files'
           /\ files' \subseteq files \cup {Path(dir, thumb)}]_vars

C24_Witness ==
  /\ op.name = "save_thumb"
  /\ op.mode0 = "timelapse"
  /\ disk_percent >= 99
  /\ op.res = ThumbName(op.arg)
  /\ files = {Path("photos", ThumbName(op.arg))}

\* C24 as stated: every call of save_thumb writes the thumbnail into the
\* directory of its kind and returns its filename
C24_ThumbAlwaysWritten ==
  [][op'.name = "save_thumb"
     => LET dir == IF op'.mode0 \in {"photo", "timelapse"}
                   THEN "photos" ELSE "videos"
            thumb == FileName("thumb_", op'.arg, "jpg")
        IN /\ Path(dir, thumb) \in files'
           /\ op'.res = thumb]_vars

\* ------------------------------------------------------------------------
\* C25: save_image returns the filename {timestamp}.jpg exactly when a file
\* of that name, not empty, is in the photos directory as it returns.
\* ------------------------------------------------------------------------
C25_NameIffFile ==
  [][op'.name = "save_image"
     => (op'.res = FileName("", op'.arg, "jpg")
         <=> Path("photos", FileName("", op'.arg, "jpg")) \in files')]_vars


\* ------------------------------------------------------------------------
\* C26: set_sensitivity(min, max) sets min_width = min_height = min and
\* max_width = max_height = max and leaves the mode, the session start
\* time, the last capture time, the background model and the device clock
\* as they were.
\* ------------------------------------------------------------------------
C26_SetSensitivityFrame ==
  [][op'.name = "set_sensitivity"
     => /\ min_width' = op'.arg /\ min_height' = op'.arg
        /\ max_width' = op'.res /\ max_height' = op'.res
        /\ UNCHANGED <<mode, session_start_time, last_capture_time, avg,
                       device_time, device_time_start>>]_vars

C26_Witness ==
  /\ op.name = "set_sensitivity"
  /\ op.arg = 1 /\ op.res = MaxSize
  /\ sens = <<1, MaxSize, 1, MaxSize>>
  /\ mode = "photo"
  /\ device_time # None

\* ------------------------------------------------------------------------
\* C27: in every reachable state the sensitivity bounds satisfy
\* min_width <= max_width and min_height <= max_height.
\* ------------------------------------------------------------------------
C27_MinAtMostMax ==
  /\ min_width <= max_width
  /\ min_height <= max_height

\* ------------------------------------------------------------------------
\* C28: applying a preset a second time changes none of the four bounds,
\* whatever the state the first application started from.
\* ------------------------------------------------------------------------
C28_PresetIdempotent ==
  [][(/\ op.name = "settings" /\ op'.name = "settings"
      /\ op.arg \in SensitivityPresets
      /\ op'.arg = op.arg)
     => sens' = sens]_vars

C28_Witness ==
  /\ op.name = "settings"
  /\ op.arg = "more"
  /\ sens = <<Config.more_sensitivity, Config.max_width,
              Config.more_sensitivity, Config.max_width>>

\* ------------------------------------------------------------------------
\* C29: after a preset is applied the height bounds are the width bounds of
\* that preset, and two different presets give different width pairs (so
\* also different height pairs).
\* ------------------------------------------------------------------------
C29_HeightsMirrorPreset ==
  [][(op'.name = "settings" /\ op'.arg \in SensitivityPresets)
     => /\ <<min_height', max_height'>> = <<min_width', max_width'>>
        /\ (/\ op.name = "settings"
            /\ op.arg \in SensitivityPresets
            /\ op.arg # op'.arg)
           => <<min_width', max_width'>> # <<min_width, max_width>>]_vars

C29_Witness ==
  /\ op.name = "settings"
  /\ op.arg = "less"
  /\ <<min_height, max_height>> = <<Config.less_sensitivity, Config.max_width>>
  /\ <<min_height, max_height>> # <<Config.min_height, Config.max_height>>

\* C29 as stated: different presets give different width pairs and the same
\* pair of height bounds
C29_PresetsShareHeights ==
  [][(/\ op.name = "settings" /\ op'.name = "settings"
      /\ op.arg \in SensitivityPresets
      /\ op'.arg \in SensitivityPresets)
     => /\ <<min_height', max_height'>> = <<min_height, max_height>>
        /\ op.arg # op'.arg
           => <<min_width', max_width'>> # <<min_width, max_width>>]_vars


\* ------------------------------------------------------------------------
\* C30: of two update_time requests that run concurrently with acceptable
\* times at most one sets the device clock: one request is answered
\* SUCCESS and the other NOT_MODIFIED.
\* ------------------------------------------------------------------------
C30_OneRequestSetsClock ==
  Cardinality({t \in Threads : pc[t].kind = "SUCCESS"}) <= 1


\* ------------------------------------------------------------------------
\* C31: the device clock is never half set: device_time is set only if
\* device_time_start is set, and no tick fails reading the fake time.
\* ------------------------------------------------------------------------
C31_ClockNeverHalfSet ==
  /\ device_time # None => device_time_start # None
  /\ ~(op.name = "update" /\ op.res = "exception" /\ calls = <<>>)


\* the calls the controller makes to capture or to work on the video buffer
CaptureFns ==
  {"save_thumb", "wait_recording", "camera_output.start",
   "camera_output.stop", "get_hires_image", "save_image"}

\* ------------------------------------------------------------------------
\* C32: in every capture the thumbnail goes to the directory of the
\* artifact it belongs to: photos for a photo or timelapse capture, videos
\* for a video capture, also when the mode changes while the tick runs.
\* ------------------------------------------------------------------------
C32_ThumbNextToArtifact ==
  [][(At("controller", "thumb") /\ ~At("controller", "thumb")')
     => op'.res = (IF pc["controller"].kind \in {"photo", "timelapse"}
                   THEN "photos" ELSE "videos")]_vars

\* ------------------------------------------------------------------------
\* C33: while no session is running (stop_session has returned, no
\* start_session since) the controller makes no capture and no
\* video-buffer call, not even in a tick that was already under way.
\* ------------------------------------------------------------------------
C33_NoCaptureWhenStopped ==
  [][mode = "inactive"
     => \A i \in 1..Len(calls') : calls'[i].fn \notin CaptureFns]_vars


\* ------------------------------------------------------------------------
\* C34: get_md_image never fails while the acquisition loop runs: whatever
\* the loop stores between the test and the conversion, the call returns a
\* frame or None.
\* ------------------------------------------------------------------------
C34_GetMdImageNeverRaises ==
  ~(op.name = "get_md_image" /\ op.res = "raise")


\* ------------------------------------------------------------------------
\* C35: whenever a video session is active the rolling video buffer of the
\* Pi camera is recording, also in a video session started after an earlier
\* one was stopped.
\* ------------------------------------------------------------------------
C35_VideoSessionRecording ==
  (picamera2 /\ mode = "video") => camera = "recording"


\* ------------------------------------------------------------------------
\* C36: whenever the session has left video mode (no request under way),
\* every start_video_stream call made so far has been matched by a
\* stop_video_stream call.
\* ------------------------------------------------------------------------
C36_LeavingVideoStops ==
  (mode # "video" /\ \A t \in Threads : At(t, "idle"))
  => n_start_video = n_stop_video


\* ------------------------------------------------------------------------
\* C37: after every completed tick a thumbnail thumb_{timestamp}.jpg is in
\* the photos directory only if {timestamp}.jpg is there too, also when the
\* disk usage was 99% or more at the capture.
\* ------------------------------------------------------------------------
C37_NoOrphanThumb ==
  \A f \in files :
     (f.dir = "photos" /\ f.name.prefix = "thumb_")
     => Path("photos", FileName("", f.name.ts, "jpg")) \in files


\* ------------------------------------------------------------------------
\* C38: in every reachable state last_capture_time <= get_fake_time(), so
\* the elapsed time the detector and the timelapse tick compare is never
\* negative, also right after the device clock was set by a client.
\* ------------------------------------------------------------------------
C38_CaptureTimeNotInFuture ==
  last_capture_time <= get_fake_time

\* C39: the settings snapshot is available in every reachable state (a GET
\* of the settings never fails), the timelapse interval it reports equals
\* the interval the timelapse tick compares against, and after a settings
\* POST has set the interval n a timelapse tick captures exactly when n
\* seconds have passed since the last capture.
C39_SettingsIntervalDrivesTick ==
  /\ [](op.name = "settings_get" => op.res = "ok")
  /\ [](timelapse # None => timelapse = timelapse_interval)
  /\ [][(op'.name = "update" /\ mode = "timelapse" /\ timelapse # None) =>
          IF get_fake_time - last_capture_time >= timelapse
          THEN CountCalls(calls', "get_hires_image") = 1
          ELSE calls' = <<>>]_vars

\* C40: the background model is set by the first detection call and never
\* cleared afterwards: once it is set, no operation (start_session,
\* stop_session, set_sensitivity, a tick in any mode, setting the device
\* clock) leaves it unset, and the model goes from unset to set only in a
\* tick of a motion mode whose detection call returns no motion.
C40_ModelNeverCleared ==
  [][/\ avg # None => avg' # None
     /\ (avg = None /\ avg' # None) =>
          /\ op'.name = "update"
          /\ op'.res = "no_motion"
          /\ mode \in MotionModes]_vars

\* a session was started after the model had been seeded in an earlier one
C40_Witness ==
  /\ avg # None
  /\ op.name = "start_session"
  /\ op.res = "ok"
  /\ op.mode0 = "inactive"
  /\ last_capture_time > BootTime
====
